---- MODULE Spec2Model ----
(***************************************************************************)
(* Model of the project-generation back end (src/server/index.js):         *)
(*   - the two generation handlers, POST /api/generate-project and         *)
(*     POST /api/generate-project-enhanced, with the tier/batch loop,      *)
(*     prioritizeFiles, chunkArray, generateFile and the static files;     *)
(*   - the in-memory cache (getFromCache / setInCache);                    *)
(*   - the rate limiter (apiLimiter) and extractDependencies.               *)
(* One request is followed from its arrival to its response; a second      *)
(* specification follows two enhanced requests that interleave.  The       *)
(* suspension points are the external generateContent calls; everything    *)
(* between two awaits is one atomic step, as in the single-threaded        *)
(* event loop that runs the handlers.                                      *)
(***************************************************************************)
EXTENDS Integers, Sequences, FiniteSets, TLC

VARIABLES
  aiState,         \* module variable `ai`: "pending" (not yet assigned), "online", "failed"
  aiAtCall,        \* history: whether `ai` was set when the handler was entered
  op,              \* which handler serves the request: "basic" or "tiered"
  architecture,    \* req.body.architecture
  pc,              \* position of the handler: "idle", "awaiting", "done"
  allFiles,        \* allFiles (tiered) / files (basic)
  generationLog,   \* generationLog
  generatedPaths,  \* generatedPaths
  prioritized,     \* result of prioritizeFiles
  tier,            \* index of the tier of the current batch (0 = none)
  chunks,          \* chunks of the current tier
  chunkIdx,        \* index i of the current batch in chunks (1-based)
  calls,           \* the generateFile / generator promises of the current batch
  response,        \* what res.status(..).json(..) sent
  extCalls,        \* number of ai.models.generateContent calls issued so far
  faults,          \* number of external calls that settled with an error or blank text
  cache,           \* the cache Map, in insertion order
  now,             \* Date.now()
  prevOp,          \* history: the cache operation before the latest one
  lastOp,          \* history: the latest cache operation, with its value (set) or result (get)
  rateLimits,      \* the rateLimits Map: client key -> { count, expiry }
  winStart,        \* history, per client: time of the check that began its current window
  winChecks,       \* history, per client: admission checks made in its current window
  lastReq,         \* history: the latest admission check, its verdict and what it found
  selection,       \* the selections of the architecture that extractDependencies reads
  dependencies,    \* the names of the entries of the deps object it returned
  other            \* the locals of a second enhanced request that is suspended at an await

pipeVars == <<aiState, aiAtCall, op, architecture, pc, allFiles, generationLog, generatedPaths,
              prioritized, tier, chunks, chunkIdx, calls, response, extCalls, faults>>
cacheVars == <<cache, now, prevOp, lastOp>>
limiterVars == <<rateLimits, winStart, winChecks, lastReq>>
depsVars == <<selection, dependencies>>
pairVars == <<other>>
vars == <<pipeVars, cacheVars, limiterVars, depsVars, pairVars>>

----
\* Bounds of the model

\* at most this many external calls of one run fail or answer with blank text
MaxFaults == 1
\* the clock runs from 0 to MaxTime
MaxTime == 2
\* stand-in for the cache capacity 1000 of setInCache (cache.size > 1000)
CacheCapacity == 2
\* stand-in for CACHE_TTL_MS, in clock ticks
CACHE_TTL_MS == 1
\* stand-in for MAX_REQUESTS (50 in the source)
MAX_REQUESTS == 3
\* stand-in for LIMIT_WINDOW, in clock ticks
LIMIT_WINDOW == 1
\* at most this many admission checks of one client are followed in one window
MaxChecks == 5

\* chunk size passed to chunkArray by the enhanced handler
BatchSize == 6
\* slice(0, 5) of the basic handler
BasicLimit == 5

Min(a, b) == IF a < b THEN a ELSE b

----
\* Architectures a request can carry

Comp(n, atomic) == [name |-> n, isAtomic |-> atomic, isNull |-> FALSE]
\* a null entry in architecture.components
NullComp == [name |-> "null", isAtomic |-> FALSE, isNull |-> TRUE]

PageLists == { <<>>, <<"Home", "About">>, <<"Home", "Home">> }
ComponentLists ==
  { <<>>,
    << Comp("Button", TRUE), Comp("Card", FALSE), Comp("Modal", FALSE) >>,
    << Comp("Card", FALSE), Comp("Card", FALSE) >>,
    << NullComp >> }
StoreLists == { <<>>, <<"cart">>, <<"cart", "cart">> }
Approaches == { "Context API", "Zustand" }
Providers == { "None", "Supabase", "Firebase" }
\* architecture.databaseSchema: undefined, or a list of tables
Schemas == { "absent", "tables" }
\* architecture.apiEndpoints: undefined, or a list of endpoints
Endpoints == { "absent", "list" }

\* more pages than one batch holds
ManyPages == << "Home", "About", "Contact", "Pricing", "Blog", "Login", "Profile" >>

\* architectures with apiEndpoints, a few without, and two with many pages
Archs ==
  [ present : {TRUE}, pages : PageLists, components : ComponentLists,
    stores : StoreLists, approach : Approaches, provider : Providers,
    schema : Schemas, endpoints : {"list"} ]
  \cup
  [ present : {TRUE}, pages : {<<"Home", "About">>},
    components : {<< Comp("Button", TRUE), Comp("Card", FALSE), Comp("Modal", FALSE) >>},
    stores : StoreLists, approach : Approaches, provider : Providers,
    schema : {"tables"}, endpoints : Endpoints \ {"list"} ]
  \cup
  [ present : {TRUE}, pages : {ManyPages}, components : {<<>>},
    stores : {<<>>}, approach : {"Context API"}, provider : {"None", "Supabase"},
    schema : {"tables"}, endpoints : {"list"} ]

\* req.body without an architecture
NoArch ==
  [ present |-> FALSE, pages |-> <<>>, components |-> <<>>, stores |-> <<>>,
    approach |-> "Context API", provider |-> "None", schema |-> "absent",
    endpoints |-> "absent" ]

----
\* Pure helpers of src/server/index.js

\* chunkArray that ignores the size and returns one chunk
chunkArray_whole(array, size) == IF Len(array) = 0 THEN << >> ELSE << array >>

\* chunkArray(array, size)
chunkArray(array, size) ==
  [ c \in 1..((Len(array) + size - 1) \div size) |->
      SubSeq(array, (c - 1) * size + 1, Min(c * size, Len(array))) ]

FileSpec(t, n, p, m) == [type |-> t, name |-> n, priority |-> p, metadata |-> m]

\* architecture.components.forEach(component => component.isAtomic ...) raises
\* a TypeError on a null entry
PrioritizeThrows(arch) ==
  \E i \in 1..Len(arch.components) : arch.components[i].isNull

\* a critical tier that always holds the auth-context file
CriticalTier_auth(arch) ==
  << FileSpec("main", "src/main.tsx", 1, ""),
     FileSpec("app", "src/App.tsx", 1, ""),
     FileSpec("types", "src/types/index.ts", 1, ""),
     FileSpec("api-client", "src/lib/api.ts", 1, ""),
     FileSpec("styles", "src/index.css", 1, ""),
     FileSpec("auth-context", "src/contexts/AuthContext.tsx", 1, "") >>
  \o (IF arch.approach # "Context API"
        THEN [ i \in 1..Len(arch.stores) |->
                 FileSpec("store", "src/stores/" \o arch.stores[i] \o ".ts", 1,
                          arch.stores[i]) ]
        ELSE << >>)

\* the critical tier of prioritizeFiles
CriticalTier(arch) ==
  << FileSpec("main", "src/main.tsx", 1, ""),
     FileSpec("app", "src/App.tsx", 1, ""),
     FileSpec("types", "src/types/index.ts", 1, ""),
     FileSpec("api-client", "src/lib/api.ts", 1, ""),
     FileSpec("styles", "src/index.css", 1, "") >>
  \o (IF arch.provider # "None"
        THEN << FileSpec("auth-context", "src/contexts/AuthContext.tsx", 1, "") >>
        ELSE << >>)
  \o (IF arch.approach # "Context API"
        THEN [ i \in 1..Len(arch.stores) |->
                 FileSpec("store", "src/stores/" \o arch.stores[i] \o ".ts", 1,
                          arch.stores[i]) ]
        ELSE << >>)

\* a core tier in the reverse of the page order
CoreTier_reversed(arch) ==
  [ i \in 1..Len(arch.pages) |->
      FileSpec("page", "src/pages/" \o arch.pages[Len(arch.pages) + 1 - i] \o ".tsx", 2,
               arch.pages[Len(arch.pages) + 1 - i]) ]

\* the core tier of prioritizeFiles
CoreTier(arch) ==
  [ i \in 1..Len(arch.pages) |->
      FileSpec("page", "src/pages/" \o arch.pages[i] \o ".tsx", 2, arch.pages[i]) ]

\* the supporting tier of prioritizeFiles
SupportingTier(arch) ==
  [ i \in 1..Len(arch.components) |->
      FileSpec("component", "src/components/" \o arch.components[i].name \o ".tsx",
               IF arch.components[i].isAtomic THEN 3 ELSE 2,
               arch.components[i].name) ]
  \o << FileSpec("hook", "src/hooks/useLocalStorage.ts", 3, ""),
        FileSpec("hook", "src/hooks/useDebounce.ts", 3, ""),
        FileSpec("utils", "src/lib/utils.ts", 3, ""),
        FileSpec("utils", "src/lib/constants.ts", 3, "") >>

\* the config tier of prioritizeFiles
ConfigTier(arch) ==
  << FileSpec("readme", "README.md", 4, ""),
     FileSpec("env", ".env.example", 4, ""),
     FileSpec("gitignore", ".gitignore", 4, "") >>
  \o (IF arch.provider = "Supabase"
        THEN << FileSpec("migration", "supabase/migrations/001_initial_schema.sql", 4, "") >>
        ELSE << >>)

\* prioritizeFiles with the core key created before the critical key
prioritizeFiles_swapped(arch) ==
  << [tier |-> "core", files |-> CoreTier(arch)],
     [tier |-> "critical", files |-> CriticalTier(arch)],
     [tier |-> "supporting", files |-> SupportingTier(arch)],
     [tier |-> "config", files |-> ConfigTier(arch)] >>

\* prioritizeFiles(architecture), as the list of [tier, files] that
\* Object.entries(prioritized) yields (keys in insertion order)
prioritizeFiles(arch) ==
  << [tier |-> "critical", files |-> CriticalTier(arch)],
     [tier |-> "core", files |-> CoreTier(arch)],
     [tier |-> "supporting", files |-> SupportingTier(arch)],
     [tier |-> "config", files |-> ConfigTier(arch)] >>

\* the value of `prioritized` before prioritizeFiles has run
NoManifest == << >>

\* paths of generateStaticFiles, in order
StaticPaths ==
  << "package.json", "vite.config.ts", "tsconfig.json", "tsconfig.node.json",
     "tailwind.config.js", "postcss.config.js", "index.html", ".gitignore",
     ".env.example", "README.md" >>

\* generateReadme maps over architecture.databaseSchema: a TypeError when absent
ReadmeThrows(arch) == arch.schema = "absent"

\* generateStaticFiles(architecture) raises when generateReadme does
StaticThrows(arch) == ReadmeThrows(arch)

File(p, c) == [path |-> p, content |-> c]

\* generateStaticFiles without its package.json entry
generateStaticFiles_short(arch) ==
  [ i \in 1..(Len(StaticPaths) - 1) |-> File(StaticPaths[i + 1], "static") ]

\* generateStaticFiles(architecture)
generateStaticFiles(arch) ==
  [ i \in 1..Len(StaticPaths) |-> File(StaticPaths[i], "static") ]

\* the nine static files of the basic handler (no README.md)
BasicStaticFiles(arch) ==
  [ i \in 1..(Len(StaticPaths) - 1) |-> File(StaticPaths[i], "static") ]

\* file types whose strategy calls the generative service
AiTypes ==
  { "main", "app", "types", "api-client", "auth-context", "store", "page", "component" }

\* generateMigration: (architecture.databaseSchema || []) joined, "" without tables
generateMigration(arch) == IF arch.schema = "tables" THEN "sql" ELSE ""

\* The synchronous part of the strategy that generateFile dispatches to:
\* "content" (finished without a call), "call" (an external call is issued)
\* or "throw" (an exception before any call).
StrategyStart(spec, arch, ai) ==
  IF spec.type \in AiTypes
    THEN IF ~ai
           THEN [kind |-> "content", content |-> "placeholder"]
           ELSE IF \/ spec.type = "types" /\ arch.schema = "absent"
                   \/ spec.type = "api-client" /\ arch.endpoints = "absent"
                  THEN [kind |-> "throw", content |-> ""]
                  ELSE [kind |-> "call", content |-> ""]
    ELSE IF spec.type = "readme"
           THEN IF ReadmeThrows(arch)
                  THEN [kind |-> "throw", content |-> ""]
                  ELSE [kind |-> "content", content |-> "static"]
           ELSE IF spec.type = "migration"
                  THEN [kind |-> "content", content |-> generateMigration(arch)]
                  ELSE [kind |-> "content", content |-> "static"]

\* content of the catch block of generateFile
FallbackContent == "fallback"

\* generateFile(fileSpec, architecture) up to its first await
generateFile(spec, arch, ai) ==
  LET s == StrategyStart(spec, arch, ai) IN
    CASE s.kind = "call" -> [spec |-> spec, status |-> "inflight", content |-> ""]
      [] s.kind = "throw" -> [spec |-> spec, status |-> "settled", content |-> FallbackContent]
      [] OTHER -> [spec |-> spec, status |-> "settled", content |-> s.content]

\* stripFences(response.text) of a settled external call
stripFences(text) == IF text = "blank" THEN "" ELSE "ai"

\* a generator without a catch: the error of the external call rejects it
SettleCall_nocatch(call, outcome) ==
  IF outcome = "error"
    THEN [call EXCEPT !.status = "rejected"]
    ELSE [call EXCEPT !.status = "settled", !.content = stripFences(outcome)]

\* a generator that never resumes after its external call
SettleCall_hang(call, outcome) == call

\* The rest of a generator after its external call settled: the
\* fence-stripped text is returned, an error is caught and turned into
\* fallback content.
SettleCall(call, outcome) ==
  [call EXCEPT !.status = "settled",
               !.content = IF outcome = "error" THEN FallbackContent
                           ELSE stripFences(outcome)]

\* Promise.all(...) rejects as soon as one of its promises rejects
BatchRejected(cs) == \E i \in 1..Len(cs) : cs[i].status = "rejected"

\* a wait that ends with the first fulfilled promise
BatchSettled_any(cs) == \E i \in 1..Len(cs) : cs[i].status = "settled"

\* Promise.all(...) resolves once all its promises are fulfilled
BatchSettled(cs) == \A i \in 1..Len(cs) : cs[i].status = "settled"

\* the tier loop without the produced-path filter
PendingFiles_nodedup(files, paths) == files

\* files.filter(file => !generatedPaths.has(file.name))
PendingFiles(files, paths) == SelectSeq(files, LAMBDA f : f.name \notin paths)

\* the tier loop with `break` in place of `continue`
NextTier_break(t, manifest, paths) ==
  IF t > Len(manifest) THEN 0
  ELSE IF Len(manifest[t].files) = 0 \/ Len(PendingFiles(manifest[t].files, paths)) = 0
         THEN 0
         ELSE t

\* the next tier, from index t on, that has files and pending files; 0 if none
RECURSIVE NextTier(_, _, _)
NextTier(t, manifest, paths) ==
  IF t > Len(manifest) THEN 0
  ELSE IF Len(manifest[t].files) = 0 \/ Len(PendingFiles(manifest[t].files, paths)) = 0
         THEN NextTier(t + 1, manifest, paths)
         ELSE t

PathsOf(files) == { files[i].path : i \in 1..Len(files) }

NumInflight(cs) == Cardinality({ i \in 1..Len(cs) : cs[i].status = "inflight" })

----
\* Responses

\* no cache operation yet
NoOp == [kind |-> "none", key |-> "", value |-> "", time |-> 0, size |-> 0]

\* the client keys of the model
Clients == {"10.0.0.1", "10.0.0.2"}

\* no admission check yet
NoReq ==
  [ ip |-> "", time |-> 0, admitted |-> FALSE, hadRecord |-> FALSE,
    prevCount |-> 0, prevExpiry |-> 0, prevStart |-> 0, prevChecks |-> 0 ]

\* rateLimits.get(ip) of a client the Map has no record of
Absent == [count |-> 0, expiry |-> 0]

\* rateLimits = new Map(), before any request
LimiterIdle ==
  /\ rateLimits = [c \in Clients |-> Absent]
  /\ winStart = [c \in Clients |-> 0]
  /\ winChecks = [c \in Clients |-> 0]
  /\ lastReq = NoReq

\* the locals of an enhanced request for architecture arch that has not
\* started
IdleRun(arch) ==
  [ aiAtCall |-> FALSE, op |-> "tiered", architecture |-> arch, pc |-> "idle",
    allFiles |-> << >>, generationLog |-> << >>, generatedPaths |-> {},
    prioritized |-> << >>, tier |-> 0, chunks |-> << >>, chunkIdx |-> 0,
    calls |-> << >>,
    response |-> [status |-> 0, error |-> "", hasBundle |-> FALSE,
                  files |-> << >>, log |-> << >>] ]

\* no second request
PairIdle == other = IdleRun(NoArch)

\* an architecture without selections
NoSelection == [approach |-> "", strategy |-> "", provider |-> ""]

\* extractDependencies has not run
DepsIdle ==
  /\ selection = NoSelection
  /\ dependencies = {}

NoResponse == [status |-> 0, error |-> "", hasBundle |-> FALSE, files |-> << >>, log |-> << >>]

\* res.status(code).json({ error })
Failure(code, msg) ==
  [status |-> code, error |-> msg, hasBundle |-> FALSE, files |-> << >>, log |-> << >>]

\* res.json({ name, files, dependencies, installCommand, startCommand, generationLog })
Bundle(files, log) ==
  [status |-> 200, error |-> "", hasBundle |-> TRUE, files |-> files, log |-> log]

\* a log entry that names a batch by the loop index i, not i + 1
LogEntry_zero(t, b, c) ==
  [tier |-> t, batch |-> IF t = "static" THEN b ELSE b - 1, count |-> c]

\* generationLog.push({ phase, count, status: 'complete' })
LogEntry(t, b, c) == [tier |-> t, batch |-> b, count |-> c]

----
\* The state after module load: `ai` is not yet assigned, no request served

Init ==
  /\ aiState = "pending"
  /\ aiAtCall = FALSE
  /\ op \in {"basic", "tiered"}
  /\ architecture \in Archs \cup {NoArch}
  /\ pc = "idle"
  /\ allFiles = << >>
  /\ generationLog = << >>
  /\ generatedPaths = {}
  /\ prioritized = NoManifest
  /\ tier = 0
  /\ chunks = << >>
  /\ chunkIdx = 0
  /\ calls = << >>
  /\ response = NoResponse
  /\ extCalls = 0
  /\ faults = 0
  /\ cache = << >>
  /\ now = 0
  /\ prevOp = NoOp
  /\ lastOp = NoOp
  /\ LimiterIdle
  /\ DepsIdle
  /\ PairIdle

\* AI client initialization: the async import either assigns `ai` or fails
AiInitialize ==
  /\ aiState = "pending"
  /\ aiState' \in {"online", "failed"}
  /\ UNCHANGED <<aiAtCall, op, architecture, pc, allFiles, generationLog, generatedPaths,
                 prioritized, tier, chunks, chunkIdx, calls, response, extCalls, faults>>
  /\ UNCHANGED <<cacheVars, limiterVars, depsVars, pairVars>>

\* chunk.map(fileSpec => generateFile(fileSpec, architecture)): every call of
\* the batch runs up to its first await
Dispatch(chunk) ==
  [ i \in 1..Len(chunk) |-> generateFile(chunk[i], architecture, aiState = "online") ]

\* The tier loop from tier index t on: the next tier with pending files is
\* chunked and its first batch dispatched; without one the bundle is sent.
EnterTier(t, manifest, paths, files, log) ==
  LET nt == NextTier(t, manifest, paths) IN
    IF nt = 0
      THEN /\ tier' = 0
           /\ chunks' = << >>
           /\ chunkIdx' = 0
           /\ calls' = << >>
           /\ extCalls' = extCalls
           /\ pc' = "done"
           /\ response' = Bundle(files, log)
      ELSE LET chs == chunkArray(PendingFiles(manifest[nt].files, paths), BatchSize)
               cs == Dispatch(chs[1])
           IN /\ tier' = nt
              /\ chunks' = chs
              /\ chunkIdx' = 1
              /\ calls' = cs
              /\ extCalls' = extCalls + NumInflight(cs)
              /\ pc' = "awaiting"
              /\ response' = response

\* an enhanced handler without the availability check
ServiceUnavailable_never(ai) == FALSE

\* `!ai` at the head of the enhanced handler
ServiceUnavailable(ai) == ai # "online"

\* a handler without the input check
ArchitectureMissing_never(arch) == FALSE

\* `!architecture` of both handlers
ArchitectureMissing(arch) == ~arch.present

\* the availability check placed after step 1 of the handler
Unavailable503_late ==
  /\ response' = Failure(503, "AI Service Unavailable")
  /\ pc' = "done"
  /\ allFiles' = generateStaticFiles(architecture)
  /\ generationLog' = << LogEntry("static", 0, Len(StaticPaths)) >>
  /\ UNCHANGED <<generatedPaths, prioritized, tier, chunks, chunkIdx, calls, extCalls>>

\* if (!ai) return res.status(503).json(...): the first statement of the
\* handler, before any local of the run exists
Unavailable503 ==
  /\ response' = Failure(503, "AI Service Unavailable")
  /\ pc' = "done"
  /\ UNCHANGED <<allFiles, generationLog, generatedPaths, prioritized,
                 tier, chunks, chunkIdx, calls, extCalls>>

\* POST /api/generate-project-enhanced, from the arrival of the request to
\* the first await (or to the response when there is none)
EnhancedRequest ==
  /\ pc = "idle"
  /\ op = "tiered"
  /\ aiAtCall' = (aiState = "online")
  /\ UNCHANGED <<aiState, op, architecture, faults>>
  /\ UNCHANGED <<cacheVars, limiterVars, depsVars, pairVars>>
  /\ IF ServiceUnavailable(aiState)
       THEN Unavailable503
     ELSE IF ArchitectureMissing(architecture)
       THEN /\ response' = Failure(400, "Architecture required")
            /\ pc' = "done"
            /\ UNCHANGED <<allFiles, generationLog, generatedPaths, prioritized,
                           tier, chunks, chunkIdx, calls, extCalls>>
     ELSE IF StaticThrows(architecture)
       THEN /\ response' = Failure(500, "Project generation failed")
            /\ pc' = "done"
            /\ UNCHANGED <<allFiles, generationLog, generatedPaths, prioritized,
                           tier, chunks, chunkIdx, calls, extCalls>>
     ELSE LET staticFiles == generateStaticFiles(architecture)
              log == << LogEntry("static", 0, Len(staticFiles)) >>
              paths == PathsOf(staticFiles)
          IN /\ allFiles' = staticFiles
             /\ generationLog' = log
             /\ generatedPaths' = paths
             /\ IF PrioritizeThrows(architecture)
                  THEN /\ response' = Failure(500, "Project generation failed")
                       /\ pc' = "done"
                       /\ UNCHANGED <<prioritized, tier, chunks, chunkIdx, calls, extCalls>>
                  ELSE /\ prioritized' = prioritizeFiles(architecture)
                       /\ EnterTier(1, prioritizeFiles(architecture), paths, staticFiles, log)

\* One external generateContent call settles; the strategy returns the
\* fence-stripped text, or the error is turned into fallback content (by the
\* catch of generateFile, or by the catch of the basic generators).
Settle ==
  /\ pc = "awaiting"
  /\ \E i \in 1..Len(calls) :
       /\ calls[i].status = "inflight"
       /\ \E outcome \in {"text", "blank", "error"} :
            /\ outcome # "text" => faults < MaxFaults
            /\ faults' = IF outcome = "text" THEN faults ELSE faults + 1
            /\ calls' = [calls EXCEPT ![i] = SettleCall(@, outcome)]
  /\ UNCHANGED <<aiState, aiAtCall, op, architecture, pc, allFiles, generationLog,
                 generatedPaths, prioritized, tier, chunks, chunkIdx, response, extCalls>>
  /\ UNCHANGED <<cacheVars, limiterVars, depsVars, pairVars>>

\* results pushed as each generation completes: the files that need no
\* external call first
ChunkResults_completion(cs) ==
  LET all == [ i \in 1..Len(cs) |-> File(cs[i].spec.name, cs[i].content) ]
      sync == { cs[i].spec.name : i \in { j \in 1..Len(cs) : cs[j].spec.type \notin AiTypes } }
  IN SelectSeq(all, LAMBDA f : f.path \in sync) \o SelectSeq(all, LAMBDA f : f.path \notin sync)

\* chunkResults of a settled batch
ChunkResults(cs) == [ i \in 1..Len(cs) |-> File(cs[i].spec.name, cs[i].content) ]

\* The continuation of `await Promise.all(...)` in the tier loop: the batch is
\* merged and logged, then the next batch or tier is dispatched, or the
\* bundle is sent. A rejected batch lands in the catch of the handler.
BatchResume ==
  /\ pc = "awaiting"
  /\ op = "tiered"
  /\ BatchRejected(calls) \/ BatchSettled(calls)
  /\ IF BatchRejected(calls)
     THEN /\ response' = Failure(500, "Project generation failed")
          /\ pc' = "done"
          /\ UNCHANGED <<allFiles, generationLog, generatedPaths, tier, chunks,
                         chunkIdx, calls, extCalls>>
     ELSE
     LET chunkResults == ChunkResults(calls)
         paths == generatedPaths \cup PathsOf(chunkResults)
         files == allFiles \o chunkResults
         log == Append(generationLog,
                       LogEntry(prioritized[tier].tier, chunkIdx, Len(chunkResults)))
     IN /\ generatedPaths' = paths
        /\ allFiles' = files
        /\ generationLog' = log
        /\ IF chunkIdx < Len(chunks)
             THEN LET cs == Dispatch(chunks[chunkIdx + 1])
                  IN /\ chunkIdx' = chunkIdx + 1
                     /\ calls' = cs
                     /\ extCalls' = extCalls + NumInflight(cs)
                     /\ UNCHANGED <<tier, chunks, pc, response>>
             ELSE EnterTier(tier + 1, prioritized, paths, files, log)
  /\ UNCHANGED <<aiState, aiAtCall, op, architecture, prioritized, faults>>
  /\ UNCHANGED <<cacheVars, limiterVars, depsVars, pairVars>>

----
\* POST /api/generate-project (the basic handler)

\* (list || []).slice(0, 5)
Slice5(list) == SubSeq(list, 1, Min(BasicLimit, Len(list)))

\* generateReactComponent(component, arch) up to its first await, `ai` set:
\* reading component.name of a null entry raises inside the try and again
\* inside the catch, so the promise is rejected
generateReactComponent(c) ==
  [ spec |-> FileSpec("component", "src/components/" \o c.name \o ".tsx", 0, c.name),
    status |-> IF c.isNull THEN "rejected" ELSE "inflight",
    content |-> "" ]

\* generateReactPage(page, arch) up to its first await, `ai` set
generateReactPage(p) ==
  [ spec |-> FileSpec("page", "src/pages/" \o p \o ".tsx", 0, p),
    status |-> "inflight", content |-> "" ]

\* generateAppRouter(pages, arch) up to its first await, `ai` set
generateAppRouter ==
  [ spec |-> FileSpec("app", "src/App.tsx", 0, ""), status |-> "inflight", content |-> "" ]

\* the promises handed to the outer Promise.all of the basic handler
BasicCalls(arch) ==
  LET componentsToGen == Slice5(arch.components)
      pagesToGen == Slice5(arch.pages)
  IN [ i \in 1..Len(componentsToGen) |-> generateReactComponent(componentsToGen[i]) ]
     \o [ i \in 1..Len(pagesToGen) |-> generateReactPage(pagesToGen[i]) ]
     \o << generateAppRouter >>

\* the two files the basic handler appends after App.tsx
BasicFixedFiles == << File("src/main.tsx", "static"), File("src/index.css", "static") >>

\* From the arrival of the request to the await of Promise.all, or to the
\* response when `ai` is not set or the architecture is missing
BasicRequest ==
  /\ pc = "idle"
  /\ op = "basic"
  /\ aiAtCall' = (aiState = "online")
  /\ UNCHANGED <<aiState, op, architecture, generationLog, generatedPaths, prioritized,
                 tier, chunks, chunkIdx, faults>>
  /\ UNCHANGED <<cacheVars, limiterVars, depsVars, pairVars>>
  /\ IF ArchitectureMissing(architecture)
       THEN /\ response' = Failure(400, "Architecture required")
            /\ pc' = "done"
            /\ UNCHANGED <<allFiles, calls, extCalls>>
     ELSE IF aiState # "online"
       THEN /\ allFiles' = BasicStaticFiles(architecture)
            /\ response' = Bundle(BasicStaticFiles(architecture), << >>)
            /\ pc' = "done"
            /\ UNCHANGED <<calls, extCalls>>
     ELSE LET cs == BasicCalls(architecture)
          IN /\ allFiles' = BasicStaticFiles(architecture)
             /\ calls' = cs
             /\ extCalls' = extCalls + NumInflight(cs)
             /\ pc' = "awaiting"
             /\ UNCHANGED response

\* The continuation of the await in the basic handler.  A rejected promise
\* rejects Promise.all at once: the catch block logs and the response is sent
\* with the files pushed so far.  Otherwise the results are merged.
BasicResume ==
  /\ pc = "awaiting"
  /\ op = "basic"
  /\ \/ \E i \in 1..Len(calls) : calls[i].status = "rejected"
     \/ \A i \in 1..Len(calls) : calls[i].status = "settled"
  /\ LET files == IF \E i \in 1..Len(calls) : calls[i].status = "rejected"
                    THEN allFiles
                    ELSE allFiles \o ChunkResults(calls) \o BasicFixedFiles
     IN /\ allFiles' = files
        /\ response' = Bundle(files, << >>)
  /\ pc' = "done"
  /\ UNCHANGED <<aiState, aiAtCall, op, architecture, generationLog, generatedPaths,
                 prioritized, tier, chunks, chunkIdx, calls, extCalls, faults>>
  /\ UNCHANGED <<cacheVars, limiterVars, depsVars, pairVars>>

Next ==
  \/ AiInitialize
  \/ EnhancedRequest
  \/ Settle
  \/ BatchResume
  \/ BasicRequest
  \/ BasicResume

Spec == Init /\ [][Next]_vars

----
\* The cache (getFromCache / setInCache).  The Map is a sequence of entries
\* in insertion order; Map.set of a present key keeps the key's position.

Keys == {"k1", "k2", "k3"}
Values == {"v1", "v2"}
\* the null that getFromCache returns for a miss
Miss == "null"

Entry(k, d, e) == [key |-> k, data |-> d, expiry |-> e]

\* cache.has(key)
CacheHas(c, k) == \E i \in 1..Len(c) : c[i].key = k

\* cache.get(key), for a present key
CacheItem(c, k) == c[CHOOSE i \in 1..Len(c) : c[i].key = k]

\* cache.delete(key)
CacheDelete(c, k) == SelectSeq(c, LAMBDA e : e.key # k)

\* cache.set(key, item)
CachePut(c, item) ==
  IF CacheHas(c, item.key)
    THEN [ i \in 1..Len(c) |-> IF c[i].key = item.key THEN item ELSE c[i] ]
    ELSE Append(c, item)

\* the store after getFromCache(key) at time t
CacheAfterGet(c, k, t) ==
  IF CacheHas(c, k) /\ t > CacheItem(c, k).expiry THEN CacheDelete(c, k) ELSE c

\* getFromCache without the expiry test
getFromCache_noexpiry(c, k, t) ==
  IF ~CacheHas(c, k) THEN Miss ELSE CacheItem(c, k).data

\* getFromCache with the expiry test Date.now() >= item.expiry
getFromCache_ge(c, k, t) ==
  IF ~CacheHas(c, k) THEN Miss
  ELSE IF t >= CacheItem(c, k).expiry THEN Miss
  ELSE CacheItem(c, k).data

\* the value getFromCache(key) returns at time t
getFromCache(c, k, t) ==
  IF ~CacheHas(c, k) THEN Miss
  ELSE IF t > CacheItem(c, k).expiry THEN Miss
  ELSE CacheItem(c, k).data

\* setInCache without the eviction
setInCache_noevict(c, k, d, t) == CachePut(c, Entry(k, d, t + CACHE_TTL_MS))

\* setInCache that evicts the entry with the least time to live
setInCache_leastttl(c, k, d, t) ==
  LET c1 == IF Len(c) > CacheCapacity
              THEN CacheDelete(c, c[CHOOSE i \in 1..Len(c) :
                                      \A j \in 1..Len(c) : c[i].expiry <= c[j].expiry].key)
              ELSE c
  IN CachePut(c1, Entry(k, d, t + CACHE_TTL_MS))

\* the store after setInCache(key, data) at time t
setInCache(c, k, d, t) ==
  LET c1 == IF Len(c) > CacheCapacity THEN CacheDelete(c, c[1].key) ELSE c
  IN CachePut(c1, Entry(k, d, t + CACHE_TTL_MS))


\* a caller reads the cache with a key of K
CacheGetIn(K) ==
  /\ \E k \in K :
       /\ lastOp' = [kind |-> "get", key |-> k, value |-> getFromCache(cache, k, now),
                     time |-> now, size |-> Len(cache)]
       /\ cache' = CacheAfterGet(cache, k, now)
  /\ prevOp' = lastOp
  /\ UNCHANGED now
  /\ UNCHANGED <<pipeVars, limiterVars, depsVars, pairVars>>

\* a caller writes a value of V under a key of K
CacheSetIn(K, V) ==
  /\ \E k \in K, v \in V :
       /\ lastOp' = [kind |-> "set", key |-> k, value |-> v, time |-> now,
                     size |-> Len(cache)]
       /\ cache' = setInCache(cache, k, v, now)
  /\ prevOp' = lastOp
  /\ UNCHANGED now
  /\ UNCHANGED <<pipeVars, limiterVars, depsVars, pairVars>>

\* a caller reads the cache
CacheGet == CacheGetIn(Keys)

\* a caller writes the cache
CacheSet == CacheSetIn(Keys, Values)

\* Date.now() advances
Tick ==
  /\ now < MaxTime
  /\ now' = now + 1
  /\ UNCHANGED <<cache, prevOp, lastOp>>
  /\ UNCHANGED <<pipeVars, limiterVars, depsVars, pairVars>>

CacheInit ==
  /\ aiState = "pending"
  /\ aiAtCall = FALSE
  /\ op = "tiered"
  /\ architecture = NoArch
  /\ pc = "idle"
  /\ allFiles = << >>
  /\ generationLog = << >>
  /\ generatedPaths = {}
  /\ prioritized = NoManifest
  /\ tier = 0
  /\ chunks = << >>
  /\ chunkIdx = 0
  /\ calls = << >>
  /\ response = NoResponse
  /\ extCalls = 0
  /\ faults = 0
  /\ cache = << >>
  /\ now = 0
  /\ prevOp = NoOp
  /\ lastOp = NoOp
  /\ LimiterIdle
  /\ DepsIdle
  /\ PairIdle

CacheNext == CacheGet \/ CacheSet \/ Tick

CacheSpec == CacheInit /\ [][CacheNext]_vars

----
\* Properties

UniquePaths(files) ==
  \A i, j \in 1..Len(files) : i # j => files[i].path # files[j].path

\* the ten fixed static files
StaticTen ==
  { "package.json", "vite.config.ts", "tsconfig.json", "tsconfig.node.json",
    "tailwind.config.js", "postcss.config.js", "index.html", ".gitignore",
    ".env.example", "README.md" }

\* an architecture on which neither the static generators nor the
\* prioritizer raise
WellFormed(arch) == arch.present /\ ~StaticThrows(arch) /\ ~PrioritizeThrows(arch)

TieredDone == op = "tiered" /\ pc = "done"
BasicDone == op = "basic" /\ pc = "done"

\* every target path of the manifest of the request's architecture
ManifestPaths ==
  LET m == prioritizeFiles(architecture)
  IN UNION { { m[t].files[i].name : i \in 1..Len(m[t].files) } : t \in 1..Len(m) }

\* the dynamic files the basic handler sets out to produce when `ai` is set
BasicPlanned ==
  { BasicCalls(architecture)[i].spec.name : i \in 1..Len(BasicCalls(architecture)) }
  \cup { "src/main.tsx", "src/index.css" }

TierRank(t) ==
  CASE t = "static" -> 0
    [] t = "critical" -> 1
    [] t = "core" -> 2
    [] t = "supporting" -> 3
    [] t = "config" -> 4

\* sum of the counts of the log entries of tier t
RECURSIVE TierCount(_, _)
TierCount(log, t) ==
  IF log = << >> THEN 0
  ELSE (IF Head(log).tier = t THEN Head(log).count ELSE 0) + TierCount(Tail(log), t)

\* C1: the files of a bundle returned by generateProjectTiered have pairwise
\* distinct paths, for every architecture, also with repeated names.
C1_NoDuplicatePaths ==
  (op = "tiered" /\ response.hasBundle) => UniquePaths(response.files)

\* C2 (as stated): with the capability unavailable, generateProjectTiered
\* still returns a bundle whose dynamic files all have non-empty content.
C2_DegradedBundle ==
  (TieredDone /\ ~aiAtCall /\ WellFormed(architecture))
    => /\ response.hasBundle
       /\ \A i \in 1..Len(response.files) : response.files[i].content # ""

\* C2 (amended): with the capability unavailable, generateProjectTiered does
\* not return a bundle: it answers with the ServiceUnavailable failure (503).
C2_UnavailableIsFailure ==
  (TieredDone /\ ~aiAtCall)
    => /\ response.status = 503
       /\ ~response.hasBundle
       /\ response.files = << >>

C2_Witness ==
  TieredDone /\ ~aiAtCall /\ WellFormed(architecture) /\ response.status = 503

\* C3 (as stated): for every architecture the outcome of generateProjectTiered
\* is a bundle with the ten static files, capability available or not.
C3_StaticAlways ==
  (TieredDone /\ WellFormed(architecture))
    => /\ response.hasBundle
       /\ StaticTen \subseteq PathsOf(response.files)

\* C3 (amended): every bundle generateProjectTiered returns contains the ten
\* static files; with the capability unavailable no bundle is returned.
C3_StaticInEveryBundle ==
  TieredDone
    => /\ response.hasBundle => StaticTen \subseteq PathsOf(response.files)
       /\ ~aiAtCall => ~response.hasBundle

C3_Witness ==
  /\ TieredDone /\ response.hasBundle /\ faults > 0
  /\ StaticTen \subseteq PathsOf(response.files)

\* C4 (as stated): a request to either operation ends in a success response
\* holding every planned file, or in a failure response without bundle.
C4_CompleteOrFailure ==
  pc = "done"
    => \/ /\ response.status = 200 /\ response.hasBundle
          /\ op = "tiered" => (StaticTen \cup ManifestPaths) \subseteq PathsOf(response.files)
          /\ (op = "basic" /\ aiAtCall) => BasicPlanned \subseteq PathsOf(response.files)
       \/ /\ response.status >= 400 /\ ~response.hasBundle

\* C4 (amended): generateProjectTiered ends in a success response holding
\* every planned file or in a failure response without bundle; in
\* generateProjectBasic an exception raised inside the generation step is
\* swallowed and the success response holds only the files appended before
\* it (the static files), otherwise it holds every planned file.
C4_TieredCompleteBasicTruncates ==
  /\ TieredDone
       => \/ /\ response.status = 200 /\ response.hasBundle
             /\ (StaticTen \cup ManifestPaths) \subseteq PathsOf(response.files)
          \/ /\ response.status >= 400 /\ ~response.hasBundle
  /\ (BasicDone /\ architecture.present /\ aiAtCall)
       => /\ response.status = 200 /\ response.hasBundle
          /\ IF \E i \in 1..Len(calls) : calls[i].status = "rejected"
               THEN response.files = BasicStaticFiles(architecture)
               ELSE BasicPlanned \subseteq PathsOf(response.files)

\* a tiered run that failed after the static files were generated
C4_Witness ==
  TieredDone /\ response.status = 500 /\ allFiles # << >> /\ ~response.hasBundle

\* C5 (as stated): without an architecture both operations answer with the
\* input error, whatever the state of the capability.
C5_InputErrorAlways ==
  (pc = "done" /\ ~architecture.present)
    => (response.status = 400 /\ response.error = "Architecture required")

\* C5 (amended): without an architecture generateProjectBasic always answers
\* with the input error; generateProjectTiered answers with the input error
\* when the capability is available and with ServiceUnavailable when not.
C5_InputErrorAfterAvailability ==
  (pc = "done" /\ ~architecture.present)
    => IF op = "tiered" /\ ~aiAtCall
         THEN response.status = 503 /\ response.error = "AI Service Unavailable"
         ELSE response.status = 400 /\ response.error = "Architecture required"

C5_Witness ==
  TieredDone /\ ~architecture.present /\ aiAtCall /\ response.status = 400

\* C6: with the capability unavailable when generateProjectTiered is called,
\* the ServiceUnavailable failure comes before any file work: no static file,
\* no manifest, no log entry, no external call.
C6_FailFast ==
  (TieredDone /\ ~aiAtCall)
    => /\ response.status = 503
       /\ allFiles = << >>
       /\ generatedPaths = {}
       /\ prioritized = NoManifest
       /\ generationLog = << >>
       /\ calls = << >>
       /\ extCalls = 0

\* the request arrived while the client was still initializing
C6_Witness ==
  TieredDone /\ ~aiAtCall /\ aiState = "online" /\ architecture.present

\* C7: log entries appear in tier order critical, core, supporting, config,
\* and within a tier in increasing batch index.
C7_TierOrder ==
  \A i, j \in 1..Len(generationLog) :
    i < j => /\ TierRank(generationLog[i].tier) <= TierRank(generationLog[j].tier)
             /\ generationLog[i].tier = generationLog[j].tier
                  => generationLog[i].batch < generationLog[j].batch

C7_Witness ==
  /\ response.hasBundle
  /\ \E i \in 1..Len(response.log) :
       response.log[i].tier = "critical" /\ response.log[i].batch = 2
  /\ \E i \in 1..Len(response.log) : response.log[i].tier = "config"

\* C8 (as stated): no entry of the generation log has a count above 6.
C8_EveryEntryAtMostSix ==
  \A i \in 1..Len(generationLog) : generationLog[i].count <= 6

\* C8 (amended): no batch entry of the generation log has a count above 6;
\* the Static Config entry has count 10.
C8_BatchEntriesAtMostSix ==
  \A i \in 1..Len(generationLog) :
    IF generationLog[i].tier = "static"
      THEN generationLog[i].count = 10
      ELSE generationLog[i].count >= 1 /\ generationLog[i].count <= 6

C8_Witness ==
  \E i, j \in 1..Len(generationLog) :
    /\ generationLog[i].tier = "supporting" /\ generationLog[i].count = 6
    /\ generationLog[j].tier = "supporting" /\ generationLog[j].batch = 2

\* the architecture of the concrete scenario
ScenarioArch ==
  [ present |-> TRUE,
    pages |-> <<"Home", "About">>,
    components |-> << Comp("Button", TRUE), Comp("Card", FALSE), Comp("Modal", FALSE) >>,
    stores |-> <<"cart">>,
    approach |-> "Zustand",
    provider |-> "Supabase",
    schema |-> "tables",
    endpoints |-> "list" ]

\* C9: for the scenario architecture the tiered run produces 7 critical,
\* 2 core, 7 supporting and 1 config dynamic files, 17 in all, and the bundle
\* holds 27 files with unique paths.
C9_Scenario ==
  (TieredDone /\ architecture = ScenarioArch /\ aiAtCall)
    => /\ response.hasBundle
       /\ TierCount(response.log, "critical") = 7
       /\ TierCount(response.log, "core") = 2
       /\ TierCount(response.log, "supporting") = 7
       /\ TierCount(response.log, "config") = 1
       /\ Len(response.files) - TierCount(response.log, "static") = 17
       /\ Len(response.files) = 27
       /\ UniquePaths(response.files)

C9_Witness ==
  TieredDone /\ architecture = ScenarioArch /\ Len(response.files) = 27

\* a get that directly follows a set of the same key
GetAfterSet ==
  lastOp.kind = "get" /\ prevOp.kind = "set" /\ prevOp.key = lastOp.key

\* C10 (as stated): set(k, v) directly followed by get(k) returns v; once the
\* TTL has elapsed since the set, get(k) returns miss.
C10_RoundTripTtlElapsed ==
  GetAfterSet
    => /\ lastOp.time = prevOp.time => lastOp.value = prevOp.value
       /\ lastOp.time - prevOp.time >= CACHE_TTL_MS => lastOp.value = Miss

\* C10 (amended): set(k, v) followed by get(k) returns v as long as no more
\* than the TTL has elapsed, the instant set time + TTL included; once more
\* than the TTL has elapsed, get(k) returns miss.
C10_RoundTripStrictTtl ==
  GetAfterSet
    => /\ lastOp.time - prevOp.time <= CACHE_TTL_MS => lastOp.value = prevOp.value
       /\ lastOp.time - prevOp.time > CACHE_TTL_MS => lastOp.value = Miss

\* a round trip on a store that was over capacity when the set ran
C10_Witness ==
  /\ GetAfterSet
  /\ prevOp.size > CacheCapacity
  /\ lastOp.time = prevOp.time + CACHE_TTL_MS
  /\ lastOp.value = prevOp.value


KeysOf(c) == { c[i].key : i \in 1..Len(c) }

\* every entry of the store is within its TTL at time t
AllFresh(c, t) == \A i \in 1..Len(c) : t <= c[i].expiry

\* the keys of store c that get can no longer retrieve from store d at time t
Lost(c, d, t) == { k \in KeysOf(c) : getFromCache(d, k, t) = Miss }

\* C11: with as many distinct keys in the store as the capacity (1000 in the
\* source), all within the TTL, inserting one more distinct key makes exactly
\* one earlier key unretrievable: the first one inserted.
C11_InsertBeyondCapacityEvictsFirst ==
  [][ ( /\ CacheSet
        /\ Len(cache) = CacheCapacity
        /\ ~CacheHas(cache, lastOp'.key)
        /\ AllFresh(cache, now) )
      => Lost(cache, cache', now) = { cache[1].key } ]_vars

\* C12: get never returns the value of an entry whose expiry has passed; a
\* get that finds such an entry deletes it from the store and returns miss.
C12_NoExpiredValue ==
  [][ CacheGet
      => LET k == lastOp'.key IN
           /\ (CacheHas(cache, k) /\ now > CacheItem(cache, k).expiry)
                => (lastOp'.value = Miss /\ ~CacheHas(cache', k))
           /\ lastOp'.value # Miss
                => /\ CacheHas(cache, k)
                   /\ now <= CacheItem(cache, k).expiry
                   /\ lastOp'.value = CacheItem(cache, k).data
                   /\ cache' = cache ]_vars

\* a get found the entry of the preceding set expired and removed it
C12_Witness ==
  /\ GetAfterSet
  /\ lastOp.time > prevOp.time + CACHE_TTL_MS
  /\ lastOp.value = Miss
  /\ lastOp.size = Len(cache) + 1
  /\ ~CacheHas(cache, lastOp.key)


----
\* The rate limiter (apiLimiter), one admission check per step

Record(c, e) == [count |-> c, expiry |-> e]

\* !record
NoRecord(rl, ip) == rl[ip] = Absent

\* now > record.expiry with >= in its place
WindowExpired_ge(rec, t) == t >= rec.expiry

\* now > record.expiry
WindowExpired(rec, t) == t > rec.expiry

\* record.count >= MAX_REQUESTS with > in its place
LimitReached_gt(rec) == rec.count > MAX_REQUESTS

\* record.count >= MAX_REQUESTS
LimitReached(rec) == rec.count >= MAX_REQUESTS

\* the check starts a new window for the client
StartsWindow(rl, ip, t) == NoRecord(rl, ip) \/ WindowExpired(rl[ip], t)

\* rateLimits.set(ip, record)
LimiterPut(rl, ip, rec) == [rl EXCEPT ![ip] = rec]

\* whether apiLimiter calls next() for a check of client ip at time t
LimiterAdmits(rl, ip, t) == StartsWindow(rl, ip, t) \/ ~LimitReached(rl[ip])

\* a limiter that loses the increment of every second admitted request, as
\* two requests that both read the count before either writes it would
LimiterAfter_lost(rl, ip, t) ==
  IF StartsWindow(rl, ip, t) THEN LimiterPut(rl, ip, Record(1, t + LIMIT_WINDOW))
  ELSE IF LimitReached(rl[ip]) THEN rl
  ELSE IF rl[ip].count % 2 = 0 THEN rl
  ELSE LimiterPut(rl, ip, Record(rl[ip].count + 1, rl[ip].expiry))

\* a sliding window: every admitted request renews the expiry
LimiterAfter_sliding(rl, ip, t) ==
  IF StartsWindow(rl, ip, t) THEN LimiterPut(rl, ip, Record(1, t + LIMIT_WINDOW))
  ELSE IF LimitReached(rl[ip]) THEN rl
  ELSE LimiterPut(rl, ip, Record(rl[ip].count + 1, t + LIMIT_WINDOW))

\* the rateLimits Map after apiLimiter ran for client ip at time t
LimiterAfter(rl, ip, t) ==
  IF StartsWindow(rl, ip, t) THEN LimiterPut(rl, ip, Record(1, t + LIMIT_WINDOW))
  ELSE IF LimitReached(rl[ip]) THEN rl
  ELSE LimiterPut(rl, ip, Record(rl[ip].count + 1, rl[ip].expiry))

\* apiLimiter(req, res, next) for a request of one client
ApiLimiter ==
  /\ \E ip \in Clients :
       LET fresh == StartsWindow(rateLimits, ip, now) IN
         /\ fresh \/ winChecks[ip] < MaxChecks
         /\ rateLimits' = LimiterAfter(rateLimits, ip, now)
         /\ winStart' = [winStart EXCEPT ![ip] = IF fresh THEN now ELSE @]
         /\ winChecks' = [winChecks EXCEPT ![ip] = IF fresh THEN 1 ELSE @ + 1]
         /\ lastReq' =
              [ ip |-> ip, time |-> now,
                admitted |-> LimiterAdmits(rateLimits, ip, now),
                hadRecord |-> ~NoRecord(rateLimits, ip),
                prevCount |-> IF NoRecord(rateLimits, ip) THEN 0 ELSE rateLimits[ip].count,
                prevExpiry |-> IF NoRecord(rateLimits, ip) THEN 0 ELSE rateLimits[ip].expiry,
                prevStart |-> winStart[ip],
                prevChecks |-> IF NoRecord(rateLimits, ip) THEN 0 ELSE winChecks[ip] ]
  /\ UNCHANGED <<pipeVars, cacheVars, depsVars, pairVars>>

LimiterInit ==
  /\ aiState = "pending"
  /\ aiAtCall = FALSE
  /\ op = "tiered"
  /\ architecture = NoArch
  /\ pc = "idle"
  /\ allFiles = << >>
  /\ generationLog = << >>
  /\ generatedPaths = {}
  /\ prioritized = NoManifest
  /\ tier = 0
  /\ chunks = << >>
  /\ chunkIdx = 0
  /\ calls = << >>
  /\ response = NoResponse
  /\ extCalls = 0
  /\ faults = 0
  /\ cache = << >>
  /\ now = 0
  /\ prevOp = NoOp
  /\ lastOp = NoOp
  /\ LimiterIdle
  /\ DepsIdle
  /\ PairIdle

LimiterNext == ApiLimiter \/ Tick

LimiterSpec == LimiterInit /\ [][LimiterNext]_vars


----
\* The rate limiter scenario

\* the last admission check found a record of its client
Rechecked == lastReq.ip # "" /\ lastReq.hadRecord

\* the record of the client of the last admission check
LastRecord == rateLimits[lastReq.ip]

\* the last check opened a window: count 1 and an expiry one window ahead
OpenedWindow ==
  /\ lastReq.admitted
  /\ LastRecord = Record(1, lastReq.time + LIMIT_WINDOW)

\* C13 as stated: inside a window the first MAX_REQUESTS checks of a client
\* are admitted and the next one is rejected, and a check made once the
\* window duration has passed since the window started is admitted and
\* leaves count = 1 and a new expiry.
C13_WindowElapsedResets ==
  Rechecked =>
    IF lastReq.time - lastReq.prevStart >= LIMIT_WINDOW
      THEN OpenedWindow
      ELSE lastReq.admitted <=> lastReq.prevChecks < MAX_REQUESTS

\* C13 amended: a check is inside the window up to and including the instant
\* window start + window duration; there the first MAX_REQUESTS checks are
\* admitted and every later one is rejected. A check made strictly later is
\* admitted and leaves count = 1 and a new expiry. A client without a record
\* is admitted with count = 1.
C13_WindowStrictlyElapsedResets ==
  /\ Rechecked =>
       IF lastReq.time - lastReq.prevStart > LIMIT_WINDOW
         THEN OpenedWindow
         ELSE /\ lastReq.admitted <=> lastReq.prevChecks < MAX_REQUESTS
              /\ lastReq.admitted => LastRecord.count = lastReq.prevChecks + 1
  /\ (lastReq.ip # "" /\ ~lastReq.hadRecord) => OpenedWindow

\* a client used up a window, was rejected in it, and is admitted again with
\* count = 1 after the window
C13_Witness ==
  /\ Rechecked
  /\ lastReq.prevChecks > MAX_REQUESTS
  /\ lastReq.time > lastReq.prevStart + LIMIT_WINDOW
  /\ OpenedWindow


\* C14: every record of the rate limiter has 1 <= count <= MAX_REQUESTS, and
\* a request is rejected exactly when its client has a record whose window
\* has not expired and whose count is already MAX_REQUESTS.
C14_CountBounded ==
  /\ \A c \in Clients :
       ~NoRecord(rateLimits, c) =>
         rateLimits[c].count >= 1 /\ rateLimits[c].count <= MAX_REQUESTS
  /\ lastReq.ip # "" =>
       ( ~lastReq.admitted <=>
           /\ lastReq.hadRecord
           /\ lastReq.time <= lastReq.prevExpiry
           /\ lastReq.prevCount = MAX_REQUESTS )

\* a request is rejected while its client's record stands at the maximum
C14_Witness ==
  /\ lastReq.ip # ""
  /\ ~lastReq.admitted
  /\ LastRecord.count = MAX_REQUESTS
  /\ lastReq.time <= LastRecord.expiry


\* C18: the window is fixed. A request inside a started window, admitted or
\* rejected, leaves the expiry of its client's record unchanged; a rejected
\* request leaves the whole record unchanged; the expiry of an existing
\* record changes only when the request arrives after the window expired;
\* the records of the other clients are not touched.
C18_FixedWindow ==
  [][ ApiLimiter =>
        LET ip == lastReq'.ip
            old == rateLimits[ip]
            new == rateLimits'[ip]
        IN /\ (~NoRecord(rateLimits, ip) /\ now <= old.expiry) => new.expiry = old.expiry
           /\ ~lastReq'.admitted => new = old
           /\ (~NoRecord(rateLimits, ip) /\ new.expiry # old.expiry) => now > old.expiry
           /\ \A c \in Clients \ {ip} : rateLimits'[c] = rateLimits[c] ]_vars

\* a request admitted later in a started window kept the window's expiry
C18_Witness ==
  /\ Rechecked
  /\ lastReq.admitted
  /\ lastReq.time > lastReq.prevStart
  /\ lastReq.time <= lastReq.prevExpiry
  /\ LastRecord = Record(lastReq.prevCount + 1, lastReq.prevExpiry)


----
\* Failure isolation of generateFile

\* the strategy of a dispatched file raised before any external call
StrategyRaised(call) == StrategyStart(call.spec, architecture, aiAtCall).kind = "throw"

\* one call of the batch settles and the other calls keep their results
OneSettles ==
  \E i \in 1..Len(calls) :
    /\ calls[i].status = "inflight"
    /\ Len(calls') = Len(calls)
    /\ calls'[i].status = "settled"
    /\ calls'[i].spec = calls[i].spec
    /\ calls'[i].content \in {FallbackContent, "ai", ""}
    /\ faults' = faults => calls'[i].content = "ai"
    /\ \A j \in 1..Len(calls) : j # i => calls'[j] = calls[j]

\* C15: generateFile never raises. In a tiered run no call of a batch is
\* ever rejected; a file whose strategy raises is returned under the path of
\* its FileSpec with fallback content; a settling external call, failed or
\* not, turns its own call into an artifact of the same FileSpec and leaves
\* the other calls of the batch as they were; the handler never answers 500
\* once a batch has been dispatched, and a merged batch holds one artifact
\* per FileSpec, under the FileSpec's path.
C15_GenerateFileNeverRaises ==
  /\ [] ( op = "tiered" =>
            /\ \A i \in 1..Len(calls) :
                 /\ calls[i].status # "rejected"
                 /\ StrategyRaised(calls[i]) =>
                      calls[i].status = "settled" /\ calls[i].content = FallbackContent
            /\ response.status = 500 => calls = << >> )
  /\ [][ (Settle /\ op = "tiered") => OneSettles ]_vars
  /\ [][ (BatchResume /\ pc' = "awaiting") =>
           \A i \in 1..Len(calls) :
             allFiles'[Len(allFiles) + i] = File(calls[i].spec.name, calls[i].content) ]_vars

\* a bundle that holds the fallback of a file whose strategy raised, the
\* fallback of a file whose external call failed, and generated files
C15_Witness ==
  /\ TieredDone
  /\ response.hasBundle
  /\ architecture.endpoints = "absent"
  /\ faults = 1
  /\ \E i, j, k \in 1..Len(response.files) :
       /\ response.files[i] = File("src/lib/api.ts", FallbackContent)
       /\ response.files[j] = File("src/main.tsx", FallbackContent)
       /\ response.files[k] = File("src/App.tsx", "ai")


----
\* Termination of the tiered run

\* every external call that was issued settles, and the handler resumes
\* once its batch has settled
\* the architectures of the termination check: with and without pages, with
\* a component list that is generated and one that makes the prioritizer raise
LiveArchs ==
  { a \in Archs :
      /\ a.pages \in { <<>>, <<"Home", "About">> }
      /\ a.components \in
           { << Comp("Button", TRUE), Comp("Card", FALSE), Comp("Modal", FALSE) >>,
             << NullComp >> } }

LiveInit ==
  /\ Init
  /\ op = "tiered"
  /\ architecture \in LiveArchs \cup {NoArch}

LiveNext == AiInitialize \/ EnhancedRequest \/ Settle \/ BatchResume

LiveSpec == LiveInit /\ [][LiveNext]_vars /\ WF_vars(Settle) /\ WF_vars(BatchResume)

\* the produced paths when tier t of manifest m is entered
EarlierPaths(m, t) ==
  StaticTen \cup UNION { { m[u].files[i].name : i \in 1..Len(m[u].files) } : u \in 1..(t - 1) }

\* the ceiling of the pending-file count of tier t divided by the batch size
ExpectedBatches(m, t) ==
  (Len(PendingFiles(m[t].files, EarlierPaths(m, t))) + BatchSize - 1) \div BatchSize

\* the number of batches of tier name t in a log
Batches(log, t) == Cardinality({ i \in 1..Len(log) : log[i].tier = t })

\* the handler has answered: a bundle or an explicit failure
Responded ==
  /\ pc = "done"
  /\ \/ response.hasBundle /\ response.status = 200
     \/ ~response.hasBundle /\ response.status \in {400, 500, 503}

\* C16: when every issued external call eventually settles, a tiered run that
\* waits for a batch eventually answers with a bundle or an explicit failure,
\* and the answered bundle was produced in, for each tier, the ceiling of its
\* pending-file count divided by 6 batches.
C16_TieredTerminates ==
  /\ (op = "tiered" /\ pc = "awaiting") ~> (op = "tiered" /\ Responded)
  /\ [] ( (TieredDone /\ response.hasBundle) =>
            \A t \in 1..Len(prioritized) :
              Batches(response.log, prioritized[t].tier) = ExpectedBatches(prioritized, t) )

\* a run that went through a tier of two batches and an external failure
\* has answered with a bundle
C16_Witness ==
  /\ TieredDone
  /\ Responded
  /\ response.hasBundle
  /\ faults = 1
  /\ extCalls > BatchSize
  /\ \E t \in 1..Len(prioritized) : ExpectedBatches(prioritized, t) = 2


----
\* Dedup across tiers

\* number of artifacts appended by the static step and by the tiers other
\* than tier name t, according to the log
RECURSIVE CountOutside(_, _)
CountOutside(log, t) ==
  IF log = << >> THEN 0
  ELSE (IF Head(log).tier # t THEN Head(log).count ELSE 0) + CountOutside(Tail(log), t)

\* the paths written by the static step and by the tiers before the current one
WrittenBefore ==
  PathsOf(SubSeq(allFiles, 1, CountOutside(generationLog, prioritized[tier].tier)))

\* C17: in a tiered run no FileSpec whose path was written by a static file
\* or by an earlier tier is passed to generateFile; the produced-path set
\* contains the path of every artifact appended so far, and it only grows.
C17_DedupAcrossTiers ==
  /\ [] ( (op = "tiered" /\ pc = "awaiting") =>
            /\ WrittenBefore \subseteq generatedPaths
            /\ \A i \in 1..Len(calls) : calls[i].spec.name \notin WrittenBefore )
  /\ [] ( op = "tiered" => PathsOf(allFiles) \subseteq generatedPaths )
  /\ [][ generatedPaths \subseteq generatedPaths' ]_vars

\* the config tier is entered with the static README.md, .env.example and
\* .gitignore filtered out and only the migration dispatched
C17_Witness ==
  /\ op = "tiered"
  /\ pc = "awaiting"
  /\ tier = 4
  /\ Len(prioritized[4].files) = 4
  /\ Len(calls) = 1
  /\ calls[1].spec.name = "supabase/migrations/001_initial_schema.sql"
  /\ { "README.md", ".env.example", ".gitignore" } \subseteq WrittenBefore


----
\* Dependencies of the bundle (extractDependencies)

\* stateManagement.approach of an architecture, "" when not given
StateApproaches ==
  { "Context API", "Redux Toolkit", "Zustand", "Jotai", "Recoil", "Mixed", "" }
\* performance.caching.strategy of an architecture, "" when not given
CachingStrategies == { "React Query", "SWR", "RTK Query", "Manual", "None", "" }
\* authentication.provider of an architecture, "" when not given
AuthProviders ==
  { "Supabase", "Firebase", "Auth0", "NextAuth", "Custom JWT", "Clerk", "None", "" }

Selections ==
  [ approach : StateApproaches, strategy : CachingStrategies, provider : AuthProviders ]

\* the entries deps starts with
BaseDeps ==
  { "react", "react-dom", "react-router-dom", "lucide-react", "clsx", "tailwind-merge" }

\* the state-management branch with one entry for Redux Toolkit
StateDeps_single(approach) ==
  CASE approach = "Zustand" -> { "zustand" }
    [] approach = "Redux Toolkit" -> { "@reduxjs/toolkit" }
    [] approach = "Jotai" -> { "jotai" }
    [] OTHER -> {}

\* // Add state management
StateDeps(approach) ==
  CASE approach = "Zustand" -> { "zustand" }
    [] approach = "Redux Toolkit" -> { "@reduxjs/toolkit", "react-redux" }
    [] approach = "Jotai" -> { "jotai" }
    [] OTHER -> {}

\* // Add data fetching
FetchDeps(strategy) ==
  CASE strategy = "React Query" -> { "@tanstack/react-query" }
    [] strategy = "SWR" -> { "swr" }
    [] OTHER -> {}

\* // Add authentication provider
AuthDeps(provider) ==
  CASE provider = "Supabase" -> { "@supabase/supabase-js" }
    [] provider = "Firebase" -> { "firebase" }
    [] provider = "Clerk" -> { "@clerk/clerk-react" }
    [] OTHER -> {}

\* extractDependencies(architecture), as the set of the keys of deps
extractDependencies(sel) ==
  BaseDeps \cup StateDeps(sel.approach) \cup FetchDeps(sel.strategy)
           \cup AuthDeps(sel.provider)

\* dependencies: extractDependencies(architecture) for one architecture
ExtractDependencies ==
  /\ \E sel \in Selections :
       /\ selection' = sel
       /\ dependencies' = extractDependencies(sel)
  /\ UNCHANGED <<pipeVars, cacheVars, limiterVars, pairVars>>

DepsInit == LimiterInit

DepsNext == ExtractDependencies

DepsSpec == DepsInit /\ [][DepsNext]_vars

\* the selections the code has a branch for
RecognizedApproaches == { "Zustand", "Redux Toolkit", "Jotai" }
RecognizedStrategies == { "React Query", "SWR" }
RecognizedProviders == { "Supabase", "Firebase", "Clerk" }

One(b) == IF b THEN 1 ELSE 0

\* extractDependencies has run
Extracted == dependencies # {}

\* C19 as stated: the dependencies hold the base libraries plus exactly one
\* entry for a recognized state-management approach, exactly one for a
\* recognized caching strategy and exactly one for a recognized auth
\* provider; other selections add nothing.
C19_OneEntryPerSelection ==
  Extracted =>
    /\ BaseDeps \subseteq dependencies
    /\ Cardinality(dependencies \ BaseDeps) =
         One(selection.approach \in RecognizedApproaches)
         + One(selection.strategy \in RecognizedStrategies)
         + One(selection.provider \in RecognizedProviders)

\* C19 amended: the dependencies hold the base libraries plus one entry for
\* a recognized state-management approach, two when the approach is Redux
\* Toolkit (@reduxjs/toolkit and react-redux), exactly one for a recognized
\* caching strategy and exactly one for a recognized auth provider; other
\* selections add nothing.
C19_EntriesPerSelection ==
  Extracted =>
    /\ BaseDeps \subseteq dependencies
    /\ Cardinality(dependencies \ BaseDeps) =
         One(selection.approach \in RecognizedApproaches)
         + One(selection.approach = "Redux Toolkit")
         + One(selection.strategy \in RecognizedStrategies)
         + One(selection.provider \in RecognizedProviders)
    /\ selection.approach = "Redux Toolkit" =>
         { "@reduxjs/toolkit", "react-redux" } \subseteq dependencies

\* Redux Toolkit, SWR and Clerk selected: ten dependencies
C19_Witness ==
  /\ Extracted
  /\ selection = [approach |-> "Redux Toolkit", strategy |-> "SWR", provider |-> "Clerk"]
  /\ Cardinality(dependencies) = 10


----
\* The basic handler without the generative capability

\* C20: with the capability unavailable the basic handler answers with a
\* bundle that holds every dynamic file it plans (the components and pages of
\* the first five, the router, the entry point), with placeholder content.
C20_BasicDegradesToPlaceholders ==
  (BasicDone /\ architecture.present /\ ~aiAtCall) =>
    /\ response.hasBundle
    /\ \A p \in BasicPlanned :
         \E i \in 1..Len(response.files) :
           /\ response.files[i].path = p
           /\ response.files[i].content \in {"placeholder", "static"}


----
\* Batch and tier barrier

\* no call of the batch is pending or rejected
AllSettled == \A i \in 1..Len(calls) : calls[i].status = "settled"

\* a step of a tiered run that dispatches a batch after the first one
StartsNextBatch ==
  /\ op = "tiered"
  /\ pc = "awaiting"
  /\ pc' = "awaiting"
  /\ <<tier', chunkIdx'>> # <<tier, chunkIdx>>

\* a step of a waiting tiered run that changes the produced-path set, the
\* output list or the log
MergesResults ==
  /\ op = "tiered"
  /\ pc = "awaiting"
  /\ <<generatedPaths', allFiles', generationLog'>> # <<generatedPaths, allFiles, generationLog>>

\* the names of the files of the tiers before tier t of manifest m
EarlierTierNames(m, t) ==
  UNION { { m[u].files[i].name : i \in 1..Len(m[u].files) } : u \in 1..(t - 1) }

\* C21: in a tiered run a batch is dispatched only when every call of the
\* previous batch has settled; a batch of a later tier is dispatched only
\* when every file of the earlier tiers has been produced; the produced-path
\* set, the output list and the log change only when all calls of the
\* current batch have settled; while calls are in flight the batch in
\* flight is the only one that was dispatched and not yet merged.
C21_BatchBarrier ==
  /\ [][ StartsNextBatch =>
           /\ AllSettled
           /\ \/ tier' = tier /\ chunkIdx' = chunkIdx + 1
              \/ tier' > tier /\ chunkIdx' = 1 /\ chunkIdx = Len(chunks)
           /\ EarlierTierNames(prioritized, tier') \subseteq generatedPaths' ]_vars
  /\ [][ MergesResults => AllSettled ]_vars
  /\ [] ( (op = "tiered" /\ pc = "awaiting") =>
            /\ calls = Dispatch(chunks[chunkIdx]) \/ NumInflight(calls) < NumInflight(Dispatch(chunks[chunkIdx]))
            /\ EarlierTierNames(prioritized, tier) \subseteq generatedPaths )

\* the second batch of a tier is in flight and the six files of the first
\* batch have been merged after the ten static files
C21_Witness ==
  /\ op = "tiered"
  /\ pc = "awaiting"
  /\ tier = 1
  /\ chunkIdx = 2
  /\ NumInflight(calls) > 0
  /\ Len(allFiles) = Len(StaticPaths) + BatchSize


----
\* Peak concurrency and single attempt

\* the FileSpecs of the run passed to generateFile so far: those merged and
\* those of the current batch
NumDispatched ==
  (Len(allFiles) - Len(StaticPaths)) + (IF pc = "awaiting" THEN Len(calls) ELSE 0)

\* C22: in a tiered run at most 6 external calls are in flight at any time;
\* the number of external calls issued never exceeds the number of FileSpecs
\* passed to generateFile, and the settling of a call, failed or not, issues
\* no further call and leaves its file settled (no retry).
C22_PeakSixSingleAttempt ==
  /\ [] ( op = "tiered" => NumInflight(calls) <= 6 )
  /\ [] ( (op = "tiered" /\ allFiles # << >>) => extCalls <= NumDispatched )
  /\ [][ (Settle /\ op = "tiered") =>
           /\ extCalls' = extCalls
           /\ NumInflight(calls') = NumInflight(calls) - 1 ]_vars

\* six calls of a seven-page tier are in flight after a call of an earlier
\* batch failed
C22_Witness ==
  /\ op = "tiered"
  /\ pc = "awaiting"
  /\ architecture.pages = ManyPages
  /\ NumInflight(calls) = 6
  /\ faults = 1
  /\ \E i \in 1..Len(allFiles) : allFiles[i].content = FallbackContent


----
\* Contents of the tiers

\* prioritizeFiles has returned
Prioritized == op = "tiered" /\ prioritized # NoManifest

\* the names of the five fixed files of the critical tier
FixedCritical ==
  << "src/main.tsx", "src/App.tsx", "src/types/index.ts", "src/lib/api.ts", "src/index.css" >>

\* the files of type ty in a list of FileSpecs
OfType(files, ty) == SelectSeq(files, LAMBDA f : f.type = ty)

\* C23: the critical tier holds the five fixed files, the auth-context file
\* exactly when the auth provider is not 'None', one store file per declared
\* store exactly when the approach is not 'Context API', and nothing else.
C23_CriticalTier ==
  Prioritized =>
    LET crit == prioritized[1].files
        auth == OfType(crit, "auth-context")
        stores == OfType(crit, "store")
    IN /\ prioritized[1].tier = "critical"
       /\ Len(crit) >= 5
       /\ \A i \in 1..5 : crit[i].name = FixedCritical[i]
       /\ Len(auth) = One(architecture.provider # "None")
       /\ \A i \in 1..Len(auth) : auth[i].name = "src/contexts/AuthContext.tsx"
       /\ Len(stores) = (IF architecture.approach # "Context API"
                           THEN Len(architecture.stores) ELSE 0)
       /\ \A i \in 1..Len(stores) :
            /\ stores[i].name = "src/stores/" \o architecture.stores[i] \o ".ts"
            /\ stores[i].metadata = architecture.stores[i]
       /\ Len(crit) = 5 + Len(auth) + Len(stores)

\* a critical tier of the five fixed files, the auth context and one store
C23_Witness ==
  /\ Prioritized
  /\ architecture.provider = "Firebase"
  /\ architecture.approach = "Zustand"
  /\ architecture.stores = <<"cart">>
  /\ Len(prioritized[1].files) = 7


\* the names of the fixed hook and utility files of the supporting tier
FixedSupporting ==
  << "src/hooks/useLocalStorage.ts", "src/hooks/useDebounce.ts",
     "src/lib/utils.ts", "src/lib/constants.ts" >>

\* C24: the core tier holds exactly one FileSpec per page, in page order;
\* the supporting tier holds one FileSpec per component, in component order,
\* followed by the fixed hook and utility files; the manifest is determined
\* by the architecture alone, and the architecture is never modified.
C24_CoreAndSupportingTiers ==
  /\ [] ( Prioritized =>
            LET core == prioritized[2].files
                supp == prioritized[3].files
                pages == architecture.pages
                comps == architecture.components
            IN /\ prioritized[2].tier = "core"
               /\ Len(core) = Len(pages)
               /\ \A i \in 1..Len(pages) :
                    /\ core[i].type = "page"
                    /\ core[i].name = "src/pages/" \o pages[i] \o ".tsx"
                    /\ core[i].metadata = pages[i]
               /\ prioritized[3].tier = "supporting"
               /\ Len(supp) = Len(comps) + Len(FixedSupporting)
               /\ \A i \in 1..Len(comps) :
                    /\ supp[i].type = "component"
                    /\ supp[i].name = "src/components/" \o comps[i].name \o ".tsx"
                    /\ supp[i].metadata = comps[i].name
               /\ \A i \in 1..Len(FixedSupporting) :
                    supp[Len(comps) + i].name = FixedSupporting[i] )
  /\ [][ /\ architecture' = architecture
         /\ Prioritized => prioritized' = prioritized ]_vars

\* two pages and three components: a core tier of two and a supporting tier
\* of seven
C24_Witness ==
  /\ Prioritized
  /\ architecture.pages = <<"Home", "About">>
  /\ Len(architecture.components) = 3
  /\ Len(prioritized[2].files) = 2
  /\ Len(prioritized[3].files) = 7
  /\ prioritized[2].files[1].name = "src/pages/Home.tsx"


----
\* Capacity eviction of the cache

\* the entries of c other than the one of key k, in order
Others(c, k) == SelectSeq(c, LAMBDA e : e.key # k)

\* C25: a set on a store above capacity removes the first entry in insertion
\* order (the position of a key is that of its first insertion) and no other
\* entry, whatever the expiries of the entries are and whichever entries
\* were read before; a set on a store within capacity removes nothing; a
\* get that returns a value leaves the order of the store as it is.
C25_EvictsFirstInserted ==
  /\ [][ CacheSet =>
           LET k == lastOp'.key IN
             /\ IF Len(cache) > CacheCapacity
                  THEN Others(cache', k) = Others(Tail(cache), k)
                  ELSE Others(cache', k) = Others(cache, k)
             /\ KeysOf(cache) \ KeysOf(cache') \subseteq (IF cache = << >> THEN {} ELSE { cache[1].key })
             /\ CacheHas(cache', k) ]_vars
  /\ [][ (CacheGet /\ lastOp'.value # Miss) => cache' = cache ]_vars

\* the first entry was read and had more time to live than a later entry,
\* and the next set evicted it
C25_Witness ==
  /\ prevOp.kind = "get"
  /\ prevOp.value # Miss
  /\ lastOp.kind = "set"
  /\ lastOp.time = prevOp.time
  /\ lastOp.size > CacheCapacity
  /\ lastOp.key # prevOp.key
  /\ ~CacheHas(cache, prevOp.key)
  /\ Len(cache) = CacheCapacity
  /\ \E i \in 1..Len(cache) :
       cache[i].key # lastOp.key /\ cache[i].expiry < lastOp.time + CACHE_TTL_MS - 1


----
\* The rate limiter under interleaved requests

\* C26: apiLimiter runs from its read of the record to its write without
\* yielding, so the requests of all clients interleave only as whole checks.
\* For every interleaving the count of a client's record equals the number
\* of its checks in the current window, capped at MAX_REQUESTS: no increment
\* is lost and at most MAX_REQUESTS requests are admitted per window; a
\* check changes nothing but the record of its own client.
C26_LimiterAtomic ==
  /\ [] ( \A c \in Clients :
            IF NoRecord(rateLimits, c)
              THEN winChecks[c] = 0
              ELSE rateLimits[c].count = Min(winChecks[c], MAX_REQUESTS) )
  /\ [][ ApiLimiter =>
           /\ lastReq'.admitted <=>
                (~lastReq'.hadRecord \/ winChecks'[lastReq'.ip] <= MAX_REQUESTS)
           /\ \A c \in Clients \ {lastReq'.ip} :
                rateLimits'[c] = rateLimits[c] /\ winChecks'[c] = winChecks[c] ]_vars

\* two clients are inside their windows at once: one has used up its window
\* and was rejected, the other has been admitted twice
C26_Witness ==
  \E c, d \in Clients :
    /\ c # d
    /\ winChecks[c] > MAX_REQUESTS
    /\ rateLimits[c].count = MAX_REQUESTS
    /\ winChecks[d] = 2
    /\ rateLimits[d].count = 2
    /\ now <= rateLimits[c].expiry
    /\ now <= rateLimits[d].expiry


----
\* Order of the files of a bundle

\* the names of a list of FileSpecs, in order
NamesOf(files) == [ i \in 1..Len(files) |-> files[i].name ]

\* the names of the pending files of the tiers from t on, in tier order and
\* FileSpec order, when `paths` have been produced before tier t
RECURSIVE ExpectedNames(_, _, _)
ExpectedNames(m, t, paths) ==
  IF t > Len(m) THEN << >>
  ELSE LET pend == NamesOf(PendingFiles(m[t].files, paths))
       IN pend \o ExpectedNames(m, t + 1, paths \cup { pend[i] : i \in 1..Len(pend) })

\* C27: the files of a tiered bundle are the static files in their fixed
\* order followed by the artifacts in tier order, batch order and FileSpec
\* order within the batch, whatever the order in which the calls of a batch
\* settled and whichever of them failed.
C27_DeterministicOrder ==
  (TieredDone /\ response.hasBundle) =>
    [ i \in 1..Len(response.files) |-> response.files[i].path ]
      = StaticPaths \o ExpectedNames(prioritized, 1, StaticTen)

\* a bundle whose first batch holds the stylesheet, which needs no external
\* call, behind four generated files, one of which failed
C27_Witness ==
  /\ TieredDone
  /\ response.hasBundle
  /\ faults = 1
  /\ response.files[Len(StaticPaths) + 1].path = "src/main.tsx"
  /\ response.files[Len(StaticPaths) + 4] = File("src/lib/api.ts", FallbackContent)
  /\ response.files[Len(StaticPaths) + 5].path = "src/index.css"


----
\* Two enhanced requests that interleave at their awaits

\* the locals of the request that is running
RunLocals ==
  [ aiAtCall |-> aiAtCall, op |-> op, architecture |-> architecture, pc |-> pc,
    allFiles |-> allFiles, generationLog |-> generationLog,
    generatedPaths |-> generatedPaths, prioritized |-> prioritized, tier |-> tier,
    chunks |-> chunks, chunkIdx |-> chunkIdx, calls |-> calls, response |-> response ]

\* a produced-path set kept at module level and shared by all requests
RestorePaths_shared(saved) == generatedPaths

\* generatedPaths is a const of the handler: each request has its own
RestorePaths(saved) == saved.generatedPaths

\* The event loop leaves the running request at an await and resumes the
\* other one; each continues with its own locals.
Switch ==
  /\ other' = RunLocals
  /\ aiAtCall' = other.aiAtCall
  /\ op' = other.op
  /\ architecture' = other.architecture
  /\ pc' = other.pc
  /\ allFiles' = other.allFiles
  /\ generationLog' = other.generationLog
  /\ generatedPaths' = RestorePaths(other)
  /\ prioritized' = other.prioritized
  /\ tier' = other.tier
  /\ chunks' = other.chunks
  /\ chunkIdx' = other.chunkIdx
  /\ calls' = other.calls
  /\ response' = other.response
  /\ UNCHANGED <<aiState, extCalls, faults>>
  /\ UNCHANGED <<cacheVars, limiterVars, depsVars>>

\* an architecture with two pages and nothing else
SmallArch ==
  [ present |-> TRUE, pages |-> <<"Home", "About">>, components |-> <<>>,
    stores |-> <<>>, approach |-> "Context API", provider |-> "None",
    schema |-> "tables", endpoints |-> "list" ]

\* the architectures of the two requests
PairArchs == { ScenarioArch, SmallArch }

PairInit ==
  /\ aiState = "pending"
  /\ aiAtCall = FALSE
  /\ op = "tiered"
  /\ architecture \in PairArchs
  /\ pc = "idle"
  /\ allFiles = << >>
  /\ generationLog = << >>
  /\ generatedPaths = {}
  /\ prioritized = NoManifest
  /\ tier = 0
  /\ chunks = << >>
  /\ chunkIdx = 0
  /\ calls = << >>
  /\ response = NoResponse
  /\ extCalls = 0
  /\ faults = 0
  /\ cache = << >>
  /\ now = 0
  /\ prevOp = NoOp
  /\ lastOp = NoOp
  /\ LimiterIdle
  /\ DepsIdle
  /\ other \in { IdleRun(a) : a \in PairArchs }

PairNext == AiInitialize \/ EnhancedRequest \/ Settle \/ BatchResume \/ Switch

PairSpec == PairInit /\ [][PairNext]_vars

\* the bundle of run r is the one its architecture gives: the static files,
\* then its own pending files in tier and FileSpec order, all of them in its
\* produced-path set, and logged batch by batch
RunAlone(r) ==
  (r.pc = "done" /\ r.response.hasBundle) =>
    /\ [ i \in 1..Len(r.response.files) |-> r.response.files[i].path ]
         = StaticPaths \o ExpectedNames(prioritizeFiles(r.architecture), 1, StaticTen)
    /\ r.response.files = r.allFiles
    /\ r.generatedPaths = PathsOf(r.allFiles)
    /\ r.response.log = r.generationLog
    /\ \A t \in 1..Len(r.prioritized) :
         Batches(r.generationLog, r.prioritized[t].tier) = ExpectedBatches(r.prioritized, t)

\* C28: when two enhanced requests interleave at their awaits, the locals of
\* the suspended request (output list, produced-path set, log and the rest)
\* are changed by no step of the running one and are what it resumes with,
\* and each request answers with the bundle it would produce alone.
C28_RunsIsolated ==
  /\ [] ( RunAlone(RunLocals) /\ RunAlone(other) )
  /\ [][ \/ other' = other
         \/ other' = RunLocals /\ RunLocals' = other ]_vars

\* both requests are past their first tier at once, with different
\* architectures and an external failure
C28_Witness ==
  /\ pc = "awaiting"
  /\ other.pc = "awaiting"
  /\ tier >= 2
  /\ other.tier >= 2
  /\ architecture # other.architecture
  /\ faults = 1


----
\* Size of the cache

\* more keys than the store can hold
ManyKeys == Keys \cup {"k4"}

\* a caller reads the cache with one of the many keys
FillGet == CacheGetIn(ManyKeys)

\* a caller writes the cache under one of the many keys
FillSet == CacheSetIn(ManyKeys, {"v1"})

FillNext == FillGet \/ FillSet \/ Tick

FillSpec == CacheInit /\ [][FillNext]_vars

\* C29: after any sequence of set and get operations the store holds at
\* most capacity + 1 entries (1001 in the source).
C29_SizeAtMostCapacityPlusOne == Len(cache) <= CacheCapacity + 1

\* a set on a store of capacity + 1 entries evicted one entry, appended its
\* own and left the store at capacity + 1 entries
C29_Witness ==
  /\ lastOp.kind = "set"
  /\ lastOp.size = CacheCapacity + 1
  /\ Len(cache) = CacheCapacity + 1
  /\ cache[Len(cache)].key = lastOp.key
  /\ cache[Len(cache)].expiry = lastOp.time + CACHE_TTL_MS
  /\ Cardinality(KeysOf(cache)) = CacheCapacity + 1


----
\* Log accounting

\* the sum of the counts of the entries of a log
RECURSIVE SumCounts(_)
SumCounts(log) == IF log = << >> THEN 0 ELSE Head(log).count + SumCounts(Tail(log))

\* tier t of the run had no pending file when the loop reached it
Skipped(m, t) == Len(PendingFiles(m[t].files, EarlierPaths(m, t))) = 0

\* C30: in a tiered bundle the count of the static entry plus the counts of
\* the batch entries is the number of files; the log holds the static entry
\* and then one entry per completed batch, numbered 1, 2, ... within its
\* tier; a tier without pending files has no entry; external calls are
\* issued only for the files of a dispatched batch.
C30_LogAccounting ==
  /\ [] ( (TieredDone /\ response.hasBundle) =>
            LET log == response.log IN
              /\ SumCounts(log) = Len(response.files)
              /\ log[1] = [tier |-> "static", batch |-> 0, count |-> Len(StaticPaths)]
              /\ \A i \in 2..Len(log) :
                   /\ log[i].tier # "static"
                   /\ log[i].batch =
                        1 + Cardinality({ j \in 1..(i - 1) : log[j].tier = log[i].tier })
              /\ \A t \in 1..Len(prioritized) :
                   /\ Batches(log, prioritized[t].tier) = ExpectedBatches(prioritized, t)
                   /\ Skipped(prioritized, t) => Batches(log, prioritized[t].tier) = 0 )
  /\ [][ (op = "tiered" /\ extCalls' # extCalls) =>
           /\ pc' = "awaiting"
           /\ ~Skipped(prioritized', tier')
           /\ extCalls' = extCalls + NumInflight(calls')
           /\ \A i \in 1..Len(calls') :
                \E k \in 1..Len(prioritized'[tier'].files) :
                  calls'[i].spec = prioritized'[tier'].files[k] ]_vars
  /\ [][ (op = "tiered" /\ Len(generationLog') > Len(generationLog) /\ pc = "awaiting") =>
           /\ AllSettled
           /\ Len(generationLog') = Len(generationLog) + 1
           /\ generationLog'[Len(generationLog')].count = Len(calls) ]_vars

\* a bundle of a run with a tier of two batches and a config tier whose
\* files were all produced by the static step
C30_Witness ==
  /\ TieredDone
  /\ response.hasBundle
  /\ Skipped(prioritized, 4)
  /\ \E i \in 1..Len(response.log) : response.log[i].batch = 2
  /\ \A i \in 1..Len(response.log) : response.log[i].tier # "config"
  /\ extCalls > 0

====
